---- MODULE Spec2Model ----
(***************************************************************************)
(* Reconciliation of one web app deployment slot, after                    *)
(* library/azure_rm_webapp_slot.py (AzureRMWebAppSlots.exec_module and the *)
(* helpers it calls).                                                      *)
(*                                                                         *)
(* Reading of the source.  The file is read with its evident block         *)
(* structure.  Names the file uses without binding them are read as        *)
(* follows: `is_linux' (line 555) and `old_plan' (line 618) are the        *)
(* platform flag of the parent application, an input of the invocation;    *)
(* `self.slot' (line 865) is the slot name, as `self.name' everywhere      *)
(* else.  Lines 618-620 have no effect: the object has no attribute        *)
(* `startup_file', so hasattr() is false.                                  *)
(*                                                                         *)
(* Python values.  None is the string NoneV.  A dict is a function whose   *)
(* DOMAIN is its key set; a None dict and an empty dict are both <<>>      *)
(* wherever the code only tests them for truth.                            *)
(***************************************************************************)
EXTENDS Integers, Sequences, FiniteSets, TLC

VARIABLES
    kwargs,     \* the arguments of the invocation (the desired slot)
    remote,     \* the management plane: parent application and slot
    self,       \* the module object and the locals of exec_module
    run,        \* number of the current invocation
    history,    \* outcomes of the invocations completed before this one
    ret,        \* value returned by a comparison applied on its own
    peer        \* the module object of a second process, while it is not running

vars == <<kwargs, remote, self, run, history, ret, peer>>

\* ------------------------------------------------------------------ bounds

\* Invocations run one after the other against the same remote state.
MaxRuns == 2

\* longest frameworks list of a request
MaxFrameworks == 2

\* Number of configuration fields a patch and an existing configuration give.
MaxFields == 2

\* Number of application-setting keys the comparison is applied to.
NumKeys == 2

\* ------------------------------------------------------------ Python values

NoneV == "<None>"

EmptyDict == <<>>

\* dict.get(k): the value, or None
Get(d, k) == IF k \in DOMAIN d THEN d[k] ELSE NoneV

\* d[k] = v
Put(d, k, v) == [x \in (DOMAIN d) \cup {k} |-> IF x = k THEN v ELSE d[x]]

\* dict.update(e): e on top of d
Merge(d, e) == [x \in (DOMAIN d) \cup (DOMAIN e) |-> IF x \in DOMAIN e THEN e[x] ELSE d[x]]

\* truth value of a dict-or-None
IsEmpty(d) == DOMAIN d = {}

\* the dict without the key k
Without(d, k) == [x \in (DOMAIN d) \ {k} |-> d[x]]

\* truth value of a str-or-None
Truthy(s) == s # NoneV /\ s # ""

\* str.upper() and str.lower() on the words the model uses; a word without
\* letters (a version number) is its own upper and lower case.
UpperTable ==
    [ php |-> "PHP", node |-> "NODE", ruby |-> "RUBY", java |-> "JAVA",
      python |-> "PYTHON", dotnetcore |-> "DOTNETCORE",
      net_framework |-> "NET_FRAMEWORK",
      tomcat |-> "TOMCAT", Tomcat |-> "TOMCAT", jetty |-> "JETTY", Jetty |-> "JETTY",
      localgit |-> "LOCALGIT", LocalGit |-> "LOCALGIT",
      v4 |-> "V4", V4 |-> "V4", lts |-> "LTS" ]

LowerTable ==
    [ Tomcat |-> "tomcat", TOMCAT |-> "tomcat", tomcat |-> "tomcat",
      Jetty |-> "jetty", JETTY |-> "jetty", jetty |-> "jetty" ]

Upper(s) == IF s \in DOMAIN UpperTable THEN UpperTable[s] ELSE s

Lower(s) == IF s \in DOMAIN LowerTable THEN LowerTable[s] ELSE s

\* ------------------------------------------------------- module constants

\* Actions (line 394); UpdateAppSettings and Delete are never assigned.
NoAction == "NoAction"
CreateOrUpdate == "CreateOrUpdate"

site_config_updatable_frameworks ==
    <<"net_framework_version", "java_version", "php_version", "python_version", "scm_type">>

supported_linux_frameworks == {"ruby", "php", "dotnetcore", "node", "java"}

supported_windows_frameworks == {"net_framework", "php", "python", "node", "java"}

\* ------------------------------------------------------------- normalizer

\* A framework entry is [name, version, settings]; settings is the nested
\* dict (java_container, java_container_version), <<>> when not given.
Framework(n, v, st) == [name |-> n, version |-> v, settings |-> st]

IsTomcat(fx) ==
    ~IsEmpty(fx.settings) /\ Lower(fx.settings["java_container"]) = "tomcat"

\* the linux branch configuring the first entry of a longer list
linux_frameworks_first_entry(frameworks, site_config) ==
    LET fx == frameworks[1] IN
    IF fx.name \notin supported_linux_frameworks
    THEN [err |-> "Unsupported framework for Linux web app.", site_config |-> site_config]
    ELSE IF fx.name # "java"
    THEN [err |-> NoneV,
          site_config |-> Put(site_config, "linux_fx_version",
                              Upper(fx.name) \o "|" \o Upper(fx.version))]
    ELSE IF fx.version # "8"
    THEN [err |-> "Linux web app only supports java 8.", site_config |-> site_config]
    ELSE IF ~IsEmpty(fx.settings) /\ ~IsTomcat(fx)
    THEN [err |-> "Linux web app only supports tomcat container.", site_config |-> site_config]
    ELSE IF IsTomcat(fx)
    THEN [err |-> NoneV,
          site_config |-> Put(site_config, "linux_fx_version",
                              "TOMCAT|" \o fx.settings["java_container_version"] \o "-jre8")]
    ELSE [err |-> NoneV, site_config |-> Put(site_config, "linux_fx_version", "JAVA|8-jre8")]

\* the linux branch keeping the case of the framework name
linux_frameworks_case_kept(frameworks, site_config) ==
    LET fx == frameworks[1] IN
    IF Len(frameworks) # 1
    THEN [err |-> "Can specify one framework only for Linux web app.", site_config |-> site_config]
    ELSE IF fx.name \notin supported_linux_frameworks
    THEN [err |-> "Unsupported framework for Linux web app.", site_config |-> site_config]
    ELSE IF fx.name # "java"
    THEN [err |-> NoneV,
          site_config |-> Put(site_config, "linux_fx_version", fx.name \o "|" \o fx.version)]
    ELSE IF fx.version # "8"
    THEN [err |-> "Linux web app only supports java 8.", site_config |-> site_config]
    ELSE IF ~IsEmpty(fx.settings) /\ ~IsTomcat(fx)
    THEN [err |-> "Linux web app only supports tomcat container.", site_config |-> site_config]
    ELSE IF IsTomcat(fx)
    THEN [err |-> NoneV,
          site_config |-> Put(site_config, "linux_fx_version",
                              "TOMCAT|" \o fx.settings["java_container_version"] \o "-jre8")]
    ELSE [err |-> NoneV, site_config |-> Put(site_config, "linux_fx_version", "JAVA|8-jre8")]

\* the linux branch taking any java version
linux_frameworks_any_java(frameworks, site_config) ==
    LET fx == frameworks[1] IN
    IF Len(frameworks) # 1
    THEN [err |-> "Can specify one framework only for Linux web app.", site_config |-> site_config]
    ELSE IF fx.name \notin supported_linux_frameworks
    THEN [err |-> "Unsupported framework for Linux web app.", site_config |-> site_config]
    ELSE IF fx.name # "java"
    THEN [err |-> NoneV,
          site_config |-> Put(site_config, "linux_fx_version",
                              Upper(fx.name) \o "|" \o Upper(fx.version))]
    ELSE IF ~IsEmpty(fx.settings) /\ ~IsTomcat(fx)
    THEN [err |-> "Linux web app only supports tomcat container.", site_config |-> site_config]
    ELSE IF IsTomcat(fx)
    THEN [err |-> NoneV,
          site_config |-> Put(site_config, "linux_fx_version",
                              "TOMCAT|" \o fx.settings["java_container_version"] \o "-jre8")]
    ELSE [err |-> NoneV, site_config |-> Put(site_config, "linux_fx_version", "JAVA|8-jre8")]

\* lines 555-573: the linux branch.  Result: [err, site_config].
linux_frameworks(frameworks, site_config) ==
    LET fx == frameworks[1] IN
    IF Len(frameworks) # 1
    THEN [err |-> "Can specify one framework only for Linux web app.", site_config |-> site_config]
    ELSE IF fx.name \notin supported_linux_frameworks
    THEN [err |-> "Unsupported framework for Linux web app.", site_config |-> site_config]
    ELSE IF fx.name # "java"
    THEN [err |-> NoneV,
          site_config |-> Put(site_config, "linux_fx_version",
                              Upper(fx.name) \o "|" \o Upper(fx.version))]
    ELSE IF fx.version # "8"
    THEN [err |-> "Linux web app only supports java 8.", site_config |-> site_config]
    ELSE IF ~IsEmpty(fx.settings) /\ ~IsTomcat(fx)
    THEN [err |-> "Linux web app only supports tomcat container.", site_config |-> site_config]
    ELSE IF IsTomcat(fx)
    THEN [err |-> NoneV,
          site_config |-> Put(site_config, "linux_fx_version",
                              "TOMCAT|" \o fx.settings["java_container_version"] \o "-jre8")]
    ELSE [err |-> NoneV, site_config |-> Put(site_config, "linux_fx_version", "JAVA|8-jre8")]

\* lines 575-583: the windows loop, one entry after the other.
RECURSIVE windows_frameworks(_, _)
windows_frameworks(frameworks, site_config) ==
    IF frameworks = <<>>
    THEN [err |-> NoneV, site_config |-> site_config]
    ELSE LET fx == Head(frameworks) IN
         IF fx.name \notin supported_windows_frameworks
         THEN [err |-> "Unsupported framework for Windows web app.", site_config |-> site_config]
         ELSE windows_frameworks(Tail(frameworks),
                  Merge(Put(site_config, fx.name \o "_version", fx.version), fx.settings))

\* the exclusivity test looking at the first entry only
normalize_frameworks_java_first(frameworks, is_linux, site_config) ==
    IF frameworks = <<>>
    THEN [err |-> NoneV, site_config |-> site_config]
    ELSE IF Len(frameworks) > 1 /\ frameworks[1].name = "java"
    THEN [err |-> "Java is mutually exclusive with other frameworks.", site_config |-> site_config]
    ELSE IF is_linux
    THEN linux_frameworks(frameworks, site_config)
    ELSE windows_frameworks(frameworks, site_config)

\* lines 550-583
normalize_frameworks(frameworks, is_linux, site_config) ==
    IF frameworks = <<>>
    THEN [err |-> NoneV, site_config |-> site_config]
    ELSE IF Len(frameworks) > 1 /\ \E i \in 1..Len(frameworks) : frameworks[i].name = "java"
    THEN [err |-> "Java is mutually exclusive with other frameworks.", site_config |-> site_config]
    ELSE IF is_linux
    THEN linux_frameworks(frameworks, site_config)
    ELSE windows_frameworks(frameworks, site_config)

\* the container applied with an empty registry URL taken as given
normalize_container_url_given(container_settings, site_config, app_settings) ==
    IF IsEmpty(container_settings)
    THEN [site_config |-> site_config, app_settings |-> app_settings]
    ELSE
    LET url  == Get(container_settings, "registry_server_url")
        user == Get(container_settings, "registry_server_user")
        pass == Get(container_settings, "registry_server_password")
        a1 == IF url # NoneV
              THEN Put(app_settings, "DOCKER_REGISTRY_SERVER_URL", "https://" \o url)
              ELSE app_settings
        fx == "DOCKER|" \o (IF url # NoneV THEN url \o "/" ELSE "")
                        \o container_settings["name"]
        a2 == IF Truthy(user) THEN Put(a1, "DOCKER_REGISTRY_SERVER_USERNAME", user) ELSE a1
        a3 == IF Truthy(pass) THEN Put(a2, "DOCKER_REGISTRY_SERVER_PASSWORD", pass) ELSE a2
    IN [site_config |-> Put(site_config, "linux_fx_version", fx), app_settings |-> a3]

\* lines 588-604: [site_config, app_settings] with the container applied.
normalize_container(container_settings, site_config, app_settings) ==
    IF IsEmpty(container_settings)
    THEN [site_config |-> site_config, app_settings |-> app_settings]
    ELSE
    LET url  == Get(container_settings, "registry_server_url")
        user == Get(container_settings, "registry_server_user")
        pass == Get(container_settings, "registry_server_password")
        a1 == IF Truthy(url)
              THEN Put(app_settings, "DOCKER_REGISTRY_SERVER_URL", "https://" \o url)
              ELSE app_settings
        fx == "DOCKER|" \o (IF Truthy(url) THEN url \o "/" ELSE "")
                        \o container_settings["name"]
        a2 == IF Truthy(user) THEN Put(a1, "DOCKER_REGISTRY_SERVER_USERNAME", user) ELSE a1
        a3 == IF Truthy(pass) THEN Put(a2, "DOCKER_REGISTRY_SERVER_PASSWORD", pass) ELSE a2
    IN [site_config |-> Put(site_config, "linux_fx_version", fx), app_settings |-> a3]

\* ------------------------------------------------------------ diff engine

\* one field compared with the case of the letters kept
fx_version_changed_case_kept(site_config, existing_config, fx_version) ==
    /\ Truthy(Get(site_config, fx_version))
    /\ \/ ~Truthy(Get(existing_config, fx_version))
       \/ Get(existing_config, fx_version) # Get(site_config, fx_version)

\* lines 727-731, one field: the patch gives a value and the existing one
\* is missing or differs ignoring case.
fx_version_changed(site_config, existing_config, fx_version) ==
    /\ Truthy(Get(site_config, fx_version))
    /\ \/ ~Truthy(Get(existing_config, fx_version))
       \/ Upper(Get(existing_config, fx_version)) # Upper(Get(site_config, fx_version))

\* lines 726-737.  auto_swap_slot_name is None, "<False>" (disabled) or a name.
FalseV == "<False>"

is_site_config_changed(site_config, auto_swap_slot_name, existing_config) ==
    IF \E i \in 1..Len(site_config_updatable_frameworks) :
           fx_version_changed(site_config, existing_config, site_config_updatable_frameworks[i])
    THEN TRUE
    ELSE IF auto_swap_slot_name = FalseV
    THEN Get(existing_config, "auto_swap_slot_name") # NoneV
    ELSE /\ Truthy(auto_swap_slot_name)
         /\ auto_swap_slot_name # Get(existing_config, "auto_swap_slot_name")

\* lines 740-750: app_settings is self.app_settings, properties is
\* self.app_settings_strDic.properties.
is_app_settings_changed(app_settings, properties) ==
    IF IsEmpty(app_settings)
    THEN FALSE
    ELSE IF Cardinality(DOMAIN properties) # Cardinality(DOMAIN app_settings)
    THEN TRUE
    ELSE IF ~IsEmpty(properties)
    THEN \E key \in DOMAIN app_settings :
            \/ ~Truthy(Get(properties, key))
            \/ app_settings[key] # properties[key]
    ELSE FALSE

\* AzureRMModuleBase.update_tags, called at line 639: the existing tags with
\* the requested ones on top; changed when a requested tag is new or differs.
update_tags(tags, old_tags) ==
    [changed |-> \E k \in DOMAIN tags : ~Truthy(Get(old_tags, k)) \/ old_tags[k] # tags[k],
     tags |-> Merge(old_tags, tags)]

\* ------------------------------------------------------- the remote side

SlotId == "/slots/staging"

\* What get() answers for a slot that is not there (lines 850-853: False).
NoResponse == [found |-> FALSE, id |-> NoneV, state |-> NoneV, tags |-> EmptyDict]

\* slot_to_dict, lines 379-390: tags is None when the slot has none.
slot_to_dict(slot) ==
    [found |-> TRUE, id |-> SlotId, state |-> slot.state, tags |-> slot.tags]

NoSlot ==
    [exists |-> FALSE, state |-> NoneV, tags |-> EmptyDict,
     site_config |-> EmptyDict, app_settings |-> EmptyDict]

\* A slot the management plane has just created: running, no runtime
\* descriptor, no settings.
NewSlot ==
    [exists |-> TRUE, state |-> "Running", tags |-> EmptyDict,
     site_config |-> [linux_fx_version |-> ""], app_settings |-> EmptyDict]

\* create_or_update_slot with the envelope Site(site_config, tags), lines
\* 775-778: the fields the envelope gives replace the slot's, the others stay.
put_slot(slot, site_config, tags) ==
    LET base == IF slot.exists THEN slot ELSE NewSlot IN
    [base EXCEPT
        !.tags = tags,
        !.site_config = Merge(base.site_config, Without(site_config, "app_settings")),
        !.app_settings = IF "app_settings" \in DOMAIN site_config
                         THEN site_config["app_settings"]
                         ELSE base.app_settings]

\* start_slot / stop_slot / restart_slot, lines 949-954
slot_state_after(appstate) == IF appstate = "stopped" THEN "Stopped" ELSE "Running"

\* ------------------------------------------------- the module object

\* __init__, lines 471-504, with the locals of exec_module (lines 531-533).
\* self.auto_swap_slot_name stays None: no argument of module_arg_spec has
\* that name, so the loop of lines 524-529 never assigns it.
Constructed ==
    [pc |-> "constructed",
     app_settings |-> EmptyDict,
     auto_swap_slot_name |-> NoneV,
     site_config |-> EmptyDict,
     site_tags |-> EmptyDict,
     old_response |-> NoResponse,
     response |-> NoResponse,
     old_config |-> EmptyDict,
     app_settings_strDic |-> EmptyDict,
     to_be_updated |-> FALSE,
     to_do |-> NoAction,
     changed |-> FALSE,
     id |-> NoneV,
     calls |-> <<>>,
     failure |-> NoneV]

\* A remote call as the gateway saw it.
Call(op, ok, arg) == [op |-> op, ok |-> ok, arg |-> arg]

Issue(s, op, ok, arg) == [s EXCEPT !.calls = Append(@, Call(op, ok, arg))]

\* self.fail(msg): the invocation ends with a failure
Fail(s, msg) == [s EXCEPT !.pc = "failed", !.failure = msg]

\* an exception nothing catches: the invocation ends without a result
Crash(s, what) == [s EXCEPT !.pc = "crashed", !.failure = what]

\* return self.results
Return(s) == [s EXCEPT !.pc = "done"]

\* swap_step without the check-mode return of lines 718-719
swap_step_unchecked(s, k) ==
    IF ~IsEmpty(k.swap)
    THEN [s EXCEPT !.changed = TRUE, !.pc = "swap_slot"]
    ELSE Return(s)

\* swap_step swapping only when nothing else has changed
swap_step_when_unchanged(s, k) ==
    IF ~IsEmpty(k.swap) /\ ~s.changed
    THEN LET s1 == [s EXCEPT !.changed = TRUE] IN
         IF k.check_mode THEN Return(s1) ELSE [s1 EXCEPT !.pc = "swap_slot"]
    ELSE Return(s)

\* lines 716-723
swap_step(s, k) ==
    IF ~IsEmpty(k.swap)
    THEN LET s1 == [s EXCEPT !.changed = TRUE] IN
         IF k.check_mode THEN Return(s1) ELSE [s1 EXCEPT !.pc = "swap_slot"]
    ELSE Return(s)

\* the observed slot taken whatever create_update_slot returned
current_slot_observed(s) == s.old_response

\* lines 699-703
current_slot(s) ==
    IF s.response.found THEN s.response ELSE s.old_response

\* state_differs with restarted compared like the other two states
state_differs_restart_idempotent(slot, app_state) ==
    \/ slot.state # "Stopped" /\ app_state = "stopped"
    \/ slot.state # "Running" /\ app_state \in {"started", "restarted"}

\* lines 706-708
state_differs(slot, app_state) ==
    \/ slot.state # "Stopped" /\ app_state = "stopped"
    \/ slot.state # "Running" /\ app_state = "started"
    \/ app_state = "restarted"

\* lines 699-714
lifecycle_step(s, k) ==
    LET slot == current_slot(s) IN
    IF ~slot.found
    THEN Return(s)
    ELSE IF state_differs(slot, k.app_state)
    THEN LET s1 == [s EXCEPT !.changed = TRUE] IN
         IF k.check_mode THEN Return(s1) ELSE [s1 EXCEPT !.pc = "set_slot_state"]
    ELSE swap_step(s, k)

\* lines 687-697, up to the call of create_update_slot
update_step(s, k) ==
    IF s.to_be_updated
    THEN LET s1 == [s EXCEPT !.changed = TRUE] IN
         IF k.check_mode THEN Return(s1)
         ELSE IF s1.to_do = CreateOrUpdate THEN [s1 EXCEPT !.pc = "create_update_slot"]
         ELSE lifecycle_step(s1, k)
    ELSE lifecycle_step(s, k)

\* absent_step without marking the deletion as a change (line 675)
absent_step_unmarked(s, k) ==
    IF s.old_response.found
    THEN IF k.check_mode THEN Return(s) ELSE [s EXCEPT !.pc = "delete_slot"]
    ELSE update_step(s, k)

\* absent_step leaving an update requested after the deletion
absent_step_recreating(s, k) ==
    IF s.old_response.found
    THEN LET s1 == [s EXCEPT !.changed = TRUE, !.to_be_updated = TRUE,
                             !.to_do = CreateOrUpdate] IN
         IF k.check_mode THEN Return(s1) ELSE [s1 EXCEPT !.pc = "delete_slot"]
    ELSE update_step(s, k)

\* lines 672-685, up to the call of delete_slot
absent_step(s, k) ==
    IF s.old_response.found
    THEN LET s1 == [s EXCEPT !.changed = TRUE] IN
         IF k.check_mode THEN Return(s1) ELSE [s1 EXCEPT !.pc = "delete_slot"]
    ELSE update_step(s, k)

\* the create path with no action chosen
create_path_undecided(s, k) ==
    [s EXCEPT !.to_be_updated = TRUE, !.site_tags = k.tags]

\* lines 610-632: the slot is not there
create_path(s, k) ==
    LET cfg == IF ~IsEmpty(s.app_settings)
               THEN Put(s.site_config, "app_settings", s.app_settings)
               ELSE s.site_config
        cfg2 == IF Truthy(s.auto_swap_slot_name)
                THEN Put(cfg, "auto_swap_slot_name", s.auto_swap_slot_name)
                ELSE cfg
    IN [s EXCEPT !.to_be_updated = TRUE, !.to_do = CreateOrUpdate,
                 !.site_tags = k.tags, !.site_config = cfg2]

\* lines 633-643: the slot is there; next comes get_configuration
update_path(s, k) ==
    LET t == update_tags(k.tags, s.old_response.tags) IN
    [s EXCEPT !.site_tags = t.tags,
              !.to_be_updated = t.changed,
              !.pc = "get_configuration"]

\* after_get_slot with a missing slot treated like a missing application
after_get_slot_slot_required(s, k, is_linux) ==
    IF ~s.old_response.found
    THEN Fail(s, "Web app slot does not exist.")
    ELSE IF k.state = "present"
    THEN LET f == normalize_frameworks(k.frameworks, is_linux, s.site_config)
             c == normalize_container(k.container_settings, f.site_config, s.app_settings)
             s1 == [s EXCEPT !.site_config = c.site_config, !.app_settings = c.app_settings]
         IN IF f.err # NoneV THEN Fail(s, f.err) ELSE update_path(s1, k)
    ELSE absent_step(s, k)

\* after_get_slot validating the frameworks whatever the requested state
after_get_slot_validating(s, k, is_linux) ==
    LET f == normalize_frameworks(k.frameworks, is_linux, s.site_config)
        c == normalize_container(k.container_settings, f.site_config, s.app_settings)
        s1 == [s EXCEPT !.site_config = c.site_config, !.app_settings = c.app_settings]
    IN IF f.err # NoneV THEN Fail(s, f.err)
       ELSE IF k.state # "present" THEN absent_step(s, k)
       ELSE IF ~s.old_response.found THEN update_step(create_path(s1, k), k)
       ELSE update_path(s1, k)

\* lines 549-685: what follows get_slot
after_get_slot(s, k, is_linux) ==
    IF k.state = "present"
    THEN LET f == normalize_frameworks(k.frameworks, is_linux, s.site_config)
             c == normalize_container(k.container_settings, f.site_config, s.app_settings)
             s1 == [s EXCEPT !.site_config = c.site_config, !.app_settings = c.app_settings]
         IN IF f.err # NoneV THEN Fail(s, f.err)
            ELSE IF ~s.old_response.found THEN update_step(create_path(s1, k), k)
            ELSE update_path(s1, k)
    ELSE absent_step(s, k)

\* what follows get_configuration, without the comparison of line 652
after_get_configuration_fx_ignored(s, ok, config) ==
    IF ~ok
    THEN Crash(s, "AttributeError: 'bool' object has no attribute 'linux_fx_version'")
    ELSE
    LET changed_config == is_site_config_changed(s.site_config, s.auto_swap_slot_name, config)
    IN [s EXCEPT !.old_config = config,
                 !.to_be_updated = @ \/ changed_config,
                 !.to_do = IF changed_config THEN CreateOrUpdate ELSE @,
                 !.pc = "list_app_settings"]

\* lines 645-654: what follows get_configuration.  When the call failed,
\* get_configuration returned False (line 941) and line 652 (or 729) reads an
\* attribute of it.
after_get_configuration(s, ok, config) ==
    IF ~ok
    THEN Crash(s, "AttributeError: 'bool' object has no attribute 'linux_fx_version'")
    ELSE
    LET changed_config == is_site_config_changed(s.site_config, s.auto_swap_slot_name, config)
        changed_fx == Get(config, "linux_fx_version") # 
                          (IF "linux_fx_version" \in DOMAIN s.site_config
                           THEN s.site_config["linux_fx_version"] ELSE "")
    IN [s EXCEPT !.old_config = config,
                 !.to_be_updated = @ \/ changed_config \/ changed_fx,
                 !.to_do = IF changed_config \/ changed_fx THEN CreateOrUpdate ELSE @,
                 !.pc = "list_app_settings"]

\* line 664 without the purge flag
settings_update_decided_by_diff(purge_app_settings, app_settings, properties) ==
    is_app_settings_changed(app_settings, properties)

\* line 664: whether the settings are to be written
settings_update_decided(purge_app_settings, app_settings, properties) ==
    purge_app_settings \/ is_app_settings_changed(app_settings, properties)

\* lines 656-670, the call succeeded: properties is what it answered
settings_step(s, k, listed) ==
    LET properties == IF k.purge_app_settings THEN EmptyDict ELSE listed
        s1 == [s EXCEPT !.to_be_updated = @ \/ k.purge_app_settings]
    IN IF settings_update_decided(k.purge_app_settings, s.app_settings, properties)
       THEN [s1 EXCEPT !.to_be_updated = TRUE, !.to_do = CreateOrUpdate,
                       !.app_settings_strDic = Merge(properties, s.app_settings)]
       ELSE [s1 EXCEPT !.app_settings_strDic = properties]

\* lines 656-697: what follows list_app_settings.  When the call failed it
\* returned False (line 873): line 661 or line 742 then reads .properties of
\* it, unless nothing is purged and no setting is requested.
after_list_app_settings(s, k, ok, listed) ==
    IF ok
    THEN update_step(settings_step(s, k, listed), k)
    ELSE IF k.purge_app_settings \/ ~IsEmpty(s.app_settings)
    THEN Crash(s, "AttributeError: 'bool' object has no attribute 'properties'")
    ELSE update_step(s, k)

\* swap_slot dispatching on the action alone
swap_op_named(swap) ==
    CASE swap.action = "swap" -> "swap_slot_slot"
      [] swap.action = "preview" -> "apply_slot_configuration_slot"
      [] swap.action = "reset" -> "reset_slot_configuration_slot"

\* lines 973-1001: the operation swap_slot calls first
swap_op(swap) ==
    LET production == swap.target_slot = NoneV IN
    CASE swap.action = "swap" ->
             IF production THEN "swap_slot_with_production" ELSE "swap_slot_slot"
      [] swap.action = "preview" ->
             IF production THEN "apply_slot_config_to_production"
             ELSE "apply_slot_configuration_slot"
      [] swap.action = "reset" ->
             IF production THEN "reset_production_slot_config"
             ELSE "reset_slot_configuration_slot"

\* the slot arguments of that operation
swap_arg(swap, name) ==
    LET production == swap.target_slot = NoneV IN
    CASE swap.action = "swap" /\ production -> [target_slot |-> name]
      [] swap.action = "preview" /\ production -> [target_slot |-> name]
      [] swap.action = "reset" /\ production -> EmptyDict
      [] swap.action = "reset" /\ ~production -> [slot |-> swap.target_slot]
      [] OTHER -> [slot |-> name, target_slot |-> swap.target_slot]

SlotName == "staging"

\* ------------------------------------------------------------- input sets

php70 == Framework("php", "7.0", EmptyDict)
java8 == Framework("java", "8", EmptyDict)

FrameworkChoices == { <<>>, <<php70>>, <<java8, php70>> }

ContainerChoices ==
    { [name |-> "ubuntu", registry_server_url |-> "myregistry.io",
       registry_server_user |-> "user", registry_server_password |-> "pass"] }

\* mutually_exclusive, line 469: frameworks or container_settings, not both
RuntimeChoices ==
    { [frameworks |-> f, container_settings |-> EmptyDict] : f \in FrameworkChoices }
    \cup { [frameworks |-> <<>>, container_settings |-> c] : c \in ContainerChoices }

\* swap_sepc, lines 274-286
SwapChoices ==
    { EmptyDict } \cup
    { [action |-> a, target_slot |-> t] :
        a \in {"preview", "swap", "reset"}, t \in {NoneV, "staging2"} }

AppSettingsChoices == { EmptyDict, [k1 |-> "a"] }

TagChoices == { EmptyDict, [env |-> "dev"] }

KwargsChoices ==
    { [state |-> st, app_state |-> as, check_mode |-> cm, swap |-> sw,
       frameworks |-> rt.frameworks, container_settings |-> rt.container_settings,
       app_settings |-> ap, purge_app_settings |-> pu, tags |-> tg,
       auto_swap_slot |-> au, scm_type |-> NoneV] :
        st \in {"present", "absent"}, as \in {"started", "stopped", "restarted"},
        cm \in BOOLEAN, sw \in SwapChoices, rt \in RuntimeChoices,
        ap \in AppSettingsChoices, pu \in BOOLEAN, tg \in TagChoices,
        au \in {NoneV} }

RemoteSlotChoices ==
    { NoSlot } \cup
    { [exists |-> TRUE, state |-> st, tags |-> tg, site_config |-> sc, app_settings |-> ap] :
        st \in {"Running", "Stopped"},
        tg \in { EmptyDict, [env |-> "prod"] },
        sc \in { [linux_fx_version |-> ""] },
        ap \in { EmptyDict, [k1 |-> "a"] } }

RemoteChoices ==
    { [webapp |-> FALSE, is_linux |-> FALSE, slot |-> NoSlot] } \cup
    { [webapp |-> TRUE, is_linux |-> l, slot |-> sl] :
        l \in BOOLEAN, sl \in RemoteSlotChoices }

\* ----------------------------------------------------------------- actions

Init ==
    /\ kwargs \in KwargsChoices
    /\ remote \in RemoteChoices
    /\ self = Constructed
    /\ run = 1
    /\ history = <<>>
    /\ ret = FALSE
    /\ peer = Constructed

\* exec_module, lines 524-539 and 585-586: the arguments become attributes
Begin ==
    /\ self.pc = "constructed"
    /\ self' = [self EXCEPT
                   !.pc = "get_webapp",
                   !.app_settings = kwargs.app_settings,
                   !.site_config = IF kwargs.scm_type # NoneV
                                   THEN [scm_type |-> kwargs.scm_type] ELSE EmptyDict]
    /\ UNCHANGED <<kwargs, remote, run, history, ret, peer>>

\* lines 541-544 with get_webapp, lines 805-828
GetWebapp ==
    /\ self.pc = "get_webapp"
    /\ LET s1 == Issue(self, "get_webapp", remote.webapp, EmptyDict) IN
       self' = IF remote.webapp
               THEN [s1 EXCEPT !.pc = "get_slot"]
               ELSE Fail(s1, "Web app does not exist in resource group.")
    /\ UNCHANGED <<kwargs, remote, run, history, ret, peer>>

\* line 547 with get_slot, lines 830-853, and the code up to the next call
GetSlot ==
    /\ self.pc = "get_slot"
    /\ LET found == remote.slot.exists
           s1 == Issue(self, "get_slot", found, EmptyDict)
           s2 == [s1 EXCEPT !.old_response =
                      IF found THEN slot_to_dict(remote.slot) ELSE NoResponse]
       IN self' = after_get_slot(s2, kwargs, remote.is_linux)
    /\ UNCHANGED <<kwargs, remote, run, history, ret, peer>>

\* line 645 with get_configuration, lines 923-941
GetConfiguration ==
    /\ self.pc = "get_configuration"
    /\ \E ok \in (IF remote.slot.exists THEN BOOLEAN ELSE {FALSE}) :
          self' = after_get_configuration(
                      Issue(self, "get_configuration_slot", ok, EmptyDict),
                      ok, remote.slot.site_config)
    /\ UNCHANGED <<kwargs, remote, run, history, ret, peer>>

\* line 656 with list_app_settings, lines 855-873
ListAppSettings ==
    /\ self.pc = "list_app_settings"
    /\ \E ok \in (IF remote.slot.exists THEN BOOLEAN ELSE {FALSE}) :
          self' = after_list_app_settings(
                      Issue(self, "list_application_settings_slot", ok, EmptyDict),
                      kwargs, ok, remote.slot.app_settings)
    /\ UNCHANGED <<kwargs, remote, run, history, ret, peer>>

\* create_update_slot with its response left out of the results
CreateUpdateSlot_id_dropped ==
    /\ self.pc = "create_update_slot"
    /\ \E ok \in BOOLEAN :
          LET envelope == [site_config |-> self.site_config, tags |-> self.site_tags]
              s1 == Issue(self, "create_or_update_slot", ok, envelope)
              slot == put_slot(remote.slot, self.site_config, self.site_tags)
          IN IF ok
             THEN /\ remote' = [remote EXCEPT !.slot = slot]
                  /\ self' = lifecycle_step([s1 EXCEPT !.response = slot_to_dict(slot)], kwargs)
             ELSE /\ remote' = remote
                  /\ self' = Fail(s1, "Error creating the Web App slot")
    /\ UNCHANGED <<kwargs, run, history, ret, peer>>

\* lines 695-697 with create_update_slot, lines 765-785
CreateUpdateSlot ==
    /\ self.pc = "create_update_slot"
    /\ \E ok \in BOOLEAN :
          LET envelope == [site_config |-> self.site_config, tags |-> self.site_tags]
              s1 == Issue(self, "create_or_update_slot", ok, envelope)
              slot == put_slot(remote.slot, self.site_config, self.site_tags)
          IN IF ok
             THEN /\ remote' = [remote EXCEPT !.slot = slot]
                  /\ self' = lifecycle_step(
                                 [s1 EXCEPT !.response = slot_to_dict(slot), !.id = SlotId],
                                 kwargs)
             ELSE /\ remote' = remote
                  /\ self' = Fail(s1, "Error creating the Web App slot")
    /\ UNCHANGED <<kwargs, run, history, ret, peer>>

\* line 680 with delete_slot, lines 787-803
DeleteSlot ==
    /\ self.pc = "delete_slot"
    /\ \E ok \in BOOLEAN :
          LET s1 == Issue(self, "delete_slot", ok, EmptyDict) IN
          IF ok
          THEN /\ remote' = [remote EXCEPT !.slot = NoSlot]
               /\ self' = update_step(s1, kwargs)
          ELSE /\ remote' = remote
               /\ self' = Fail(s1, "Error deleting the Web App slots")
    /\ UNCHANGED <<kwargs, run, history, ret, peer>>

\* start_slot, stop_slot or restart_slot
state_op(appstate) ==
    CASE appstate = "started" -> "start_slot"
      [] appstate = "stopped" -> "stop_slot"
      [] appstate = "restarted" -> "restart_slot"

\* set_slot_state, lines 943-964: what becomes of the invocation after the
\* call; a CloudError is logged.
after_set_slot_state(s, k, ok) == swap_step(s, k)

\* line 714 with set_slot_state
SetSlotState ==
    /\ self.pc = "set_slot_state"
    /\ \E ok \in (IF remote.slot.exists THEN BOOLEAN ELSE {FALSE}) :
          /\ remote' = IF ok
                       THEN [remote EXCEPT !.slot.state = slot_state_after(kwargs.app_state)]
                       ELSE remote
          /\ self' = after_set_slot_state(
                         Issue(self, state_op(kwargs.app_state), ok, EmptyDict), kwargs, ok)
    /\ UNCHANGED <<kwargs, run, history, ret, peer>>

\* line 721 with swap_slot, lines 966-1001: the first operation.  What the
\* other slot holds is not part of the model, so the slot keeps its content.
SwapSlot ==
    /\ self.pc = "swap_slot"
    /\ \E ok \in (IF remote.slot.exists THEN BOOLEAN ELSE {FALSE}) :
          LET s1 == Issue(self, swap_op(kwargs.swap), ok, swap_arg(kwargs.swap, SlotName)) IN
          self' = IF ~ok THEN Fail(s1, "Failed to swap web app slot")
                  ELSE IF kwargs.swap.action = "reset" THEN [s1 EXCEPT !.pc = "swap_slot_reset"]
                  ELSE Return(s1)
    /\ UNCHANGED <<kwargs, remote, run, history, ret, peer>>

\* lines 1002-1004: after either reset operation, the slot's own
\* configuration is reset
SwapSlotReset ==
    /\ self.pc = "swap_slot_reset"
    /\ \E ok \in (IF remote.slot.exists THEN BOOLEAN ELSE {FALSE}) :
          LET s1 == Issue(self, "reset_slot_configuration_slot", ok, [slot |-> SlotName]) IN
          self' = IF ok THEN Return(s1) ELSE Fail(s1, "Failed to swap web app slot")
    /\ UNCHANGED <<kwargs, remote, run, history, ret, peer>>

Ended == self.pc \in {"done", "failed", "crashed"}

\* What is kept of an invocation that has ended.
Outcome(s) ==
    [pc |-> s.pc, changed |-> s.changed,
     faults |-> \E i \in 1..Len(s.calls) :
                   ~s.calls[i].ok /\ s.calls[i].op \notin {"get_webapp", "get_slot"}]

\* main(), lines 1013-1015: the module is run again with the same arguments
Again ==
    /\ Ended
    /\ run < MaxRuns
    /\ run' = run + 1
    /\ history' = Append(history, Outcome(self))
    /\ self' = Constructed
    /\ UNCHANGED <<kwargs, remote, ret, peer>>

Next ==
    \/ Begin
    \/ GetWebapp
    \/ GetSlot
    \/ GetConfiguration
    \/ ListAppSettings
    \/ CreateUpdateSlot
    \/ DeleteSlot
    \/ SetSlotState
    \/ SwapSlot
    \/ SwapSlotReset
    \/ Again

Spec == Init /\ [][Next]_vars

\* --------------------------------------------- the comparison on its own

KeyNames == <<"k1", "k2", "k3", "k4">>

SettingKeys == { KeyNames[i] : i \in 1..NumKeys }

SettingValues == {"", "a", "b"}

\* every dict of settings over the keys and values above
SettingsMaps == UNION { [ks -> SettingValues] : ks \in SUBSET SettingKeys }

DefaultKwargs ==
    [state |-> "present", app_state |-> "started", check_mode |-> FALSE, swap |-> EmptyDict,
     frameworks |-> <<>>, container_settings |-> EmptyDict, app_settings |-> EmptyDict,
     purge_app_settings |-> FALSE, tags |-> EmptyDict, auto_swap_slot |-> NoneV,
     scm_type |-> NoneV]

InitDiff ==
    /\ kwargs = DefaultKwargs
    /\ remote = [webapp |-> TRUE, is_linux |-> FALSE, slot |-> NewSlot]
    /\ \E d \in SettingsMaps, o \in SettingsMaps :
          self = [Constructed EXCEPT !.pc = "is_app_settings_changed",
                                     !.app_settings = d, !.app_settings_strDic = o]
    /\ run = 1
    /\ history = <<>>
    /\ ret = FALSE
    /\ peer = Constructed

\* is_app_settings_changed() applied to self.app_settings and
\* self.app_settings_strDic.properties
CompareSettings ==
    /\ self.pc = "is_app_settings_changed"
    /\ ret' = is_app_settings_changed(self.app_settings, self.app_settings_strDic)
    /\ self' = [self EXCEPT !.pc = "compared"]
    /\ UNCHANGED <<kwargs, remote, run, history, peer>>

NextDiff == CompareSettings

SpecDiff == InitDiff /\ [][NextDiff]_vars

\* ------------------------------------- the module over runtime requests

\* framework_settings_spec, lines 301-305: both keys are required
tomcat85 == [java_container |-> "Tomcat", java_container_version |-> "8.5"]
TOMCAT90 == [java_container |-> "TOMCAT", java_container_version |-> "9.0"]
jetty93 == [java_container |-> "Jetty", java_container_version |-> "9.3"]

\* framework_spec, lines 307-315: entries of the frameworks list
FrameworkEntries ==
    { Framework("java", v, st) : v \in {"8", "1.8"}, st \in {EmptyDict, tomcat85, jetty93} }
    \cup { Framework("java", "8", TOMCAT90) }
    \cup { Framework(n, "7.0", EmptyDict) : n \in {"php", "python", "ruby"} }
    \cup { Framework("node", "lts", EmptyDict) }

\* every frameworks list of at most MaxFrameworks entries
FrameworkLists == UNION { [1..n -> FrameworkEntries] : n \in 0..MaxFrameworks }

\* container_settings_spec, lines 288-293: name is required, the registry
\* options are None when not given
ContainerRequests ==
    { [name |-> "ubuntu", registry_server_url |-> u,
       registry_server_user |-> us, registry_server_password |-> pw] :
        u \in {NoneV, "", "myregistry.io"}, us \in {NoneV, "user"}, pw \in {NoneV, "pass"} }

RequestedSettings ==
    { EmptyDict, [k1 |-> "a"], [DOCKER_REGISTRY_SERVER_URL |-> "https://old.io", k1 |-> "a"] }

\* module_arg_spec, lines 401-467, with frameworks and container_settings
\* mutually exclusive (line 469)
RuntimeKwargs ==
    { [DefaultKwargs EXCEPT !.frameworks = f, !.state = st, !.swap = sw,
                            !.auto_swap_slot = au] :
        f \in FrameworkLists, st \in {"present", "absent"},
        sw \in {EmptyDict, [action |-> "reset", target_slot |-> NoneV]},
        au \in {NoneV, "staging2"} }
    \cup
    { [DefaultKwargs EXCEPT !.container_settings = c, !.app_settings = ap] :
        c \in ContainerRequests, ap \in RequestedSettings }

\* what the slot has as linux_fx_version: nothing, or a descriptor
ExistingDescriptors == {"", "PHP|7.0", "php|7.0", "DOCKER|ubuntu"}

\* the parent application, linux or windows, with its slot missing or stopped
RuntimeRemotes ==
    { [webapp |-> TRUE, is_linux |-> l, slot |-> sl] :
        l \in BOOLEAN,
        sl \in {NoSlot} \cup
               { [NewSlot EXCEPT !.state = "Stopped", !.site_config = [linux_fx_version |-> d]] :
                   d \in ExistingDescriptors } }

InitRuntime ==
    /\ kwargs \in RuntimeKwargs
    /\ remote \in RuntimeRemotes
    /\ self = Constructed
    /\ run = 1
    /\ history = <<>>
    /\ ret = FALSE
    /\ peer = Constructed

SpecRuntime == InitRuntime /\ [][Next]_vars

\* ------------------------------- the configuration comparison on its own

\* the sets of at most MaxFields fields of site_config_updatable_frameworks
ConfigFieldSets ==
    { F \in SUBSET { site_config_updatable_frameworks[i] :
                       i \in 1..Len(site_config_updatable_frameworks) } :
        Cardinality(F) <= MaxFields }

\* self.site_config: what a patch gives for a field
PatchValues == {NoneV, "", "v4"}

\* what get_configuration answers for a field
ExistingValues == {NoneV, "", "V4", "7.0"}

InitConfig ==
    /\ kwargs = DefaultKwargs
    /\ remote = [webapp |-> TRUE, is_linux |-> FALSE, slot |-> NewSlot]
    /\ \E F \in ConfigFieldSets :
       \E patch \in [F -> PatchValues], existing \in [F -> ExistingValues],
          wanted \in {NoneV, FalseV, "staging2"}, target \in {NoneV, "staging2", "staging3"} :
          self = [Constructed EXCEPT
                     !.pc = "is_site_config_changed",
                     !.site_config = patch,
                     !.auto_swap_slot_name = wanted,
                     !.old_config = Put(existing, "auto_swap_slot_name", target)]
    /\ run = 1
    /\ history = <<>>
    /\ ret = FALSE
    /\ peer = Constructed

\* is_site_config_changed(old_config), line 647
CompareConfig ==
    /\ self.pc = "is_site_config_changed"
    /\ ret' = is_site_config_changed(self.site_config, self.auto_swap_slot_name, self.old_config)
    /\ self' = [self EXCEPT !.pc = "compared_config"]
    /\ UNCHANGED <<kwargs, remote, run, history, peer>>

NextConfig == CompareConfig

SpecConfig == InitConfig /\ [][NextConfig]_vars

\* ------------------------------------------- two processes on one slot

\* both processes are given the same arguments
RaceKwargs ==
    { [DefaultKwargs EXCEPT !.state = st, !.app_state = as, !.swap = sw] :
        st \in {"present", "absent"}, as \in {"started", "stopped"},
        sw \in {EmptyDict, [action |-> "reset", target_slot |-> NoneV]} }

RaceRemotes ==
    { [webapp |-> TRUE, is_linux |-> FALSE, slot |-> sl] :
        sl \in {NoSlot, NewSlot, [NewSlot EXCEPT !.state = "Stopped"]} }

\* main() started twice, lines 1013-1019: self is the process that runs,
\* peer the one that waits, run tells which of the two is running
InitRace ==
    /\ kwargs \in RaceKwargs
    /\ remote \in RaceRemotes
    /\ self = Constructed
    /\ peer = Constructed
    /\ run = 1
    /\ history = <<>>
    /\ ret = FALSE

\* the running process is suspended between two of its remote calls and the
\* other one goes on
Yield ==
    /\ self' = peer
    /\ peer' = self
    /\ run' = IF run = 1 THEN run + 1 ELSE run - 1
    /\ UNCHANGED <<kwargs, remote, history, ret>>

NextRace ==
    \/ Begin
    \/ GetWebapp
    \/ GetSlot
    \/ GetConfiguration
    \/ ListAppSettings
    \/ CreateUpdateSlot
    \/ DeleteSlot
    \/ SetSlotState
    \/ SwapSlot
    \/ SwapSlotReset
    \/ Yield

SpecRace == InitRace /\ [][NextRace]_vars

\* ------------------------------------------------------------ properties

SwapOps ==
    {"swap_slot_with_production", "swap_slot_slot", "apply_slot_config_to_production",
     "apply_slot_configuration_slot", "reset_production_slot_config",
     "reset_slot_configuration_slot"}

StateOps == {"start_slot", "stop_slot", "restart_slot"}

MutatingOps == {"delete_slot", "create_or_update_slot"} \cup StateOps \cup SwapOps

MutatingPcs == {"delete_slot", "create_update_slot", "set_slot_state", "swap_slot",
                "swap_slot_reset"}

ReadOps == {"get_configuration_slot", "list_application_settings_slot"}

Ops(s) == { s.calls[i].op : i \in 1..Len(s.calls) }

Count(s, op) == Cardinality({ i \in 1..Len(s.calls) : s.calls[i].op = op })

Issued(s, op) == op \in Ops(s)

Succeeded(s, op) == \E i \in 1..Len(s.calls) : s.calls[i].op = op /\ s.calls[i].ok

NoFault(s) ==
    \A i \in 1..Len(s.calls) : s.calls[i].ok \/ s.calls[i].op \in {"get_webapp", "get_slot"}

SlotLookedUp == Issued(self, "get_slot")

\* C1: in check mode no mutating remote call is issued or pending, and once
\* the invocation is marked changed it has returned.
C1_CheckModeNoMutation ==
    kwargs.check_mode =>
        /\ Ops(self) \cap MutatingOps = {}
        /\ self.pc \notin MutatingPcs
        /\ (self.changed => self.pc = "done")

\* the change is found at the last mutation point, the swap
C1_Witness ==
    /\ kwargs.check_mode /\ self.pc = "done" /\ self.changed
    /\ kwargs.state = "present" /\ self.old_response.found
    /\ ~self.to_be_updated
    /\ ~state_differs(self.old_response, kwargs.app_state)
    /\ ~IsEmpty(kwargs.swap)

\* C2: with state=present, no swap, app_state other than restarted and no
\* check mode, a second invocation after a completed first one (no remote
\* call of either failing) returns changed=false and issues no mutating call.
\* Stated for purge_app_settings=false: with purge the settings are written
\* again on every invocation (C6).
C2_Idempotent ==
    ( /\ run = 2 /\ self.pc = "done"
      /\ history[1].pc = "done" /\ ~history[1].faults /\ NoFault(self)
      /\ kwargs.state = "present" /\ IsEmpty(kwargs.swap)
      /\ ~kwargs.purge_app_settings
      /\ kwargs.app_state # "restarted" /\ ~kwargs.check_mode )
    => ( ~self.changed /\ Ops(self) \cap MutatingOps = {} )

\* C3 as written: every completed invocation with app_state=restarted
\* returns changed=true and, outside check mode, has issued the restart call.
C3_RestartAlwaysChanged ==
    ( kwargs.app_state = "restarted" /\ self.pc = "done" )
    => ( self.changed /\ (~kwargs.check_mode => Issued(self, "restart_slot")) )

\* C3 amended: the same, except when state=absent and the lookup found no
\* slot; then nothing is restarted and changed stays false.
C3_RestartWhenSlot ==
    ( kwargs.app_state = "restarted" /\ self.pc = "done" )
    => IF kwargs.state = "absent" /\ ~self.old_response.found
       THEN ~self.changed /\ Ops(self) \cap StateOps = {}
       ELSE self.changed /\ (~kwargs.check_mode => Issued(self, "restart_slot"))

\* the second of two consecutive invocations restarts again
C3_Witness ==
    /\ run = 2 /\ self.pc = "done" /\ kwargs.app_state = "restarted"
    /\ history[1].pc = "done" /\ history[1].changed
    /\ self.changed /\ Succeeded(self, "restart_slot")
    /\ ~self.to_be_updated

\* C4: with state=absent, once the slot has been looked up: not found means
\* changed=false, no delete call and the invocation returns; found means
\* changed=true and, outside check mode, exactly one delete_slot call.
C4_Absent ==
    ( kwargs.state = "absent" /\ SlotLookedUp )
    => IF self.old_response.found
       THEN /\ self.changed
            /\ Count(self, "delete_slot") =
                   (IF kwargs.check_mode \/ self.pc = "delete_slot" THEN 0 ELSE 1)
       ELSE ~self.changed /\ Count(self, "delete_slot") = 0 /\ self.pc = "done"

C4_Witness ==
    /\ kwargs.state = "absent" /\ self.old_response.found /\ ~kwargs.check_mode
    /\ self.pc = "done" /\ self.changed /\ Succeeded(self, "delete_slot")
    /\ ~remote.slot.exists

\* C5: without purge, the comparison answers "not changed" exactly when the
\* requested settings and the listed settings are the same dict.
C5_SettingsDiffIff ==
    self.pc = "compared" => (ret = FALSE <=> self.app_settings = self.app_settings_strDic)

ListedOk == Succeeded(self, "list_application_settings_slot")

\* C6: with purge on a slot that is there, once the settings have been
\* listed the invocation is to be updated, has chosen CreateOrUpdate, is
\* marked changed, and the settings to write are exactly the requested ones.
C6_PurgeAlwaysUpdates ==
    ( kwargs.state = "present" /\ kwargs.purge_app_settings /\ ListedOk )
    => /\ self.to_be_updated
       /\ self.to_do = CreateOrUpdate
       /\ self.changed
       /\ self.app_settings_strDic = self.app_settings

\* purge with nothing requested, nothing else differing
C6_Witness ==
    /\ kwargs.state = "present" /\ kwargs.purge_app_settings /\ ListedOk
    /\ IsEmpty(self.app_settings)
    /\ IsEmpty(kwargs.tags) /\ IsEmpty(kwargs.frameworks)
    /\ self.pc = "create_update_slot"

ValidationErrors ==
    {"Java is mutually exclusive with other frameworks.",
     "Can specify one framework only for Linux web app.",
     "Unsupported framework for Linux web app.",
     "Linux web app only supports java 8.",
     "Linux web app only supports tomcat container.",
     "Unsupported framework for Windows web app."}

\* C7: when the parent application is not found the invocation has failed
\* and get_webapp is its only call; when the slot is not found, right after
\* the lookup, a failure can only be a validation error, and with
\* state=present and valid arguments the create path is taken.
C7_Lookup ==
    /\ (Issued(self, "get_webapp") /\ ~Succeeded(self, "get_webapp"))
         => (self.pc = "failed" /\ Len(self.calls) = 1)
    /\ (Len(self.calls) = 2 /\ ~Succeeded(self, "get_slot"))
         => /\ self.pc = "failed" => (kwargs.state = "present" /\ self.failure \in ValidationErrors)
            /\ (kwargs.state = "present" /\ self.pc # "failed")
                 => /\ self.to_be_updated /\ self.to_do = CreateOrUpdate /\ self.changed
                    /\ self.pc = (IF kwargs.check_mode THEN "done" ELSE "create_update_slot")

C7_Witness ==
    /\ Len(self.calls) = 2 /\ ~Succeeded(self, "get_slot")
    /\ kwargs.state = "present" /\ self.pc = "create_update_slot"

ValidationFailed == self.pc = "failed" /\ self.failure \in ValidationErrors

\* the application settings an envelope carries
EnvelopeSettings(env) ==
    IF "app_settings" \in DOMAIN env.site_config
    THEN env.site_config["app_settings"] ELSE EmptyDict

\* an option of the request that is given and not empty
Given(v) == v \notin {NoneV, ""}

\* the settings a container request is to add
RegistrySettings(c) ==
    [ k \in ( (IF Given(c.registry_server_url) THEN {"DOCKER_REGISTRY_SERVER_URL"} ELSE {})
              \cup (IF Given(c.registry_server_user)
                    THEN {"DOCKER_REGISTRY_SERVER_USERNAME"} ELSE {})
              \cup (IF Given(c.registry_server_password)
                    THEN {"DOCKER_REGISTRY_SERVER_PASSWORD"} ELSE {}) )
      |-> IF k = "DOCKER_REGISTRY_SERVER_URL" THEN "https://" \o c.registry_server_url
          ELSE IF k = "DOCKER_REGISTRY_SERVER_USERNAME" THEN c.registry_server_user
          ELSE c.registry_server_password ]

\* the envelope carries the requested runtime, settings and tags
CarriesRuntimeSettingsTags(env) ==
    LET c == kwargs.container_settings
        settings == EnvelopeSettings(env)
    IN
    /\ env.tags = kwargs.tags
    /\ IsEmpty(c) =>
          \A key \in DOMAIN kwargs.app_settings : Get(settings, key) = kwargs.app_settings[key]
    /\ ~IsEmpty(c) =>
          /\ Get(env.site_config, "linux_fx_version")
                 = (IF Given(c.registry_server_url)
                    THEN "DOCKER|" \o c.registry_server_url \o "/" \o c.name
                    ELSE "DOCKER|" \o c.name)
          /\ \A key \in DOMAIN RegistrySettings(c) :
                Get(settings, key) = RegistrySettings(c)[key]
          /\ \A key \in DOMAIN kwargs.app_settings \ DOMAIN RegistrySettings(c) :
                Get(settings, key) = kwargs.app_settings[key]
    /\ (kwargs.frameworks = <<php70>> /\ remote.is_linux) =>
          Get(env.site_config, "linux_fx_version") = "PHP|7.0"
    /\ (kwargs.frameworks = <<php70>> /\ ~remote.is_linux) =>
          Get(env.site_config, "php_version") = "7.0"

\* the envelope carries the requested auto-swap target
CarriesAutoSwap(env) ==
    Truthy(kwargs.auto_swap_slot) =>
        Get(env.site_config, "auto_swap_slot_name") = kwargs.auto_swap_slot

CreatePathTaken ==
    /\ kwargs.state = "present" /\ ~kwargs.check_mode
    /\ SlotLookedUp /\ ~self.old_response.found /\ ~ValidationFailed

\* C8: with state=present, valid arguments, the slot not found and no check
\* mode, the invocation is marked changed, reads neither configuration nor
\* settings, and issues exactly one create_or_update_slot call, whose
\* envelope carries the runtime, the settings, the auto-swap target and the
\* tags that were requested.
C8_CreateCarriesPatch ==
    CreatePathTaken =>
        /\ self.changed
        /\ Ops(self) \cap ReadOps = {}
        /\ Count(self, "create_or_update_slot") =
               (IF self.pc = "create_update_slot" THEN 0 ELSE 1)
        /\ \A i \in 1..Len(self.calls) :
               self.calls[i].op = "create_or_update_slot" =>
                   /\ CarriesRuntimeSettingsTags(self.calls[i].arg)
                   /\ CarriesAutoSwap(self.calls[i].arg)

\* C9: with state=present, the slot found and no check mode, once the
\* settings have been listed, create_or_update_slot is the next call exactly
\* when one of the tag, configuration and settings comparisons found a
\* difference (to_be_updated).
C9_UpdateIffDiff ==
    ( /\ kwargs.state = "present" /\ ~kwargs.check_mode
      /\ self.old_response.found /\ ListedOk
      /\ Len(self.calls) = 4 )
    => ( self.pc = "create_update_slot" <=> self.to_be_updated )

\* C10: once a remote call other than the two lookups has failed, the
\* invocation has ended in a failure.
C10_FaultIsFatal ==
    ~NoFault(self) => self.pc \in {"failed", "crashed"}

\* ------------------------------------------------ claims on normalization

HasJava(frameworks) == \E i \in 1..Len(frameworks) : frameworks[i].name = "java"

JavaWithOthers(frameworks) == Len(frameworks) > 1 /\ HasJava(frameworks)

TomcatSpellings == {"tomcat", "Tomcat", "TOMCAT"}

\* a linux request the normalizer is to accept: one entry, a linux runtime,
\* and java only as version 8 with no container or a tomcat one
LinuxValid(frameworks) ==
    /\ Len(frameworks) = 1
    /\ frameworks[1].name \in {"ruby", "php", "dotnetcore", "node", "java"}
    /\ frameworks[1].name = "java"
         => /\ frameworks[1].version = "8"
            /\ frameworks[1].settings # EmptyDict
                 => frameworks[1].settings.java_container \in TomcatSpellings

WindowsValid(frameworks) ==
    /\ ~JavaWithOthers(frameworks)
    /\ \A i \in 1..Len(frameworks) :
          frameworks[i].name \in {"net_framework", "php", "python", "node", "java"}

InvalidRequest ==
    /\ kwargs.frameworks # <<>>
    /\ IF remote.is_linux THEN ~LinuxValid(kwargs.frameworks)
                          ELSE ~WindowsValid(kwargs.frameworks)

\* the frameworks have been through lines 549-583 in this invocation
Normalized == kwargs.state = "present" /\ SlotLookedUp

\* the operations issued so far, in order
OpsInOrder(s) == [i \in 1..Len(s.calls) |-> s.calls[i].op]

\* C11 as stated: an invalid request fails with a validation error before
\* any remote call, the two lookups included.
C11_ValidationBeforeCalls == ValidationFailed => self.calls = <<>>

\* C11: with state=present, an invalid frameworks request fails with a
\* validation error once the parent application and the slot have been
\* looked up and before any other remote call; nothing is reported changed.
C11_ValidationAfterLookups ==
    /\ (Normalized /\ InvalidRequest) => ValidationFailed
    /\ ValidationFailed
         => /\ InvalidRequest /\ kwargs.state = "present"
            /\ OpsInOrder(self) = <<"get_webapp", "get_slot">>
            /\ ~self.changed

C11_Witness ==
    /\ ValidationFailed /\ remote.is_linux
    /\ Len(kwargs.frameworks) = 1 /\ kwargs.frameworks[1].version = "1.8"
    /\ Len(self.calls) = 2

\* C12: a frameworks list of more than one entry with a java entry in it
\* fails normalization with the exclusivity error, whatever the other
\* entries and the platform of the parent, and no create/update call is made.
C12_JavaExclusive ==
    (Normalized /\ JavaWithOthers(kwargs.frameworks))
    => /\ self.pc = "failed"
       /\ self.failure = "Java is mutually exclusive with other frameworks."
       /\ ~Issued(self, "create_or_update_slot")

C12_Witness ==
    /\ Normalized /\ ~remote.is_linux /\ self.pc = "failed"
    /\ Len(kwargs.frameworks) = 2
    /\ kwargs.frameworks[1].name = "php" /\ kwargs.frameworks[2].name = "java"

\* C13: for a linux parent and a non-empty frameworks list, normalization
\* succeeds exactly when the list has one entry, of a linux runtime, and a
\* java entry has version "8" and, when a container is named, it is tomcat in
\* any letter case; every other list fails with a validation error.
C13_LinuxAccepts ==
    (Normalized /\ remote.is_linux /\ kwargs.frameworks # <<>>)
    => (ValidationFailed <=> ~LinuxValid(kwargs.frameworks))

C13_Witness ==
    /\ Normalized /\ remote.is_linux
    /\ kwargs.frameworks = <<Framework("java", "8", TOMCAT90)>>
    /\ self.pc = "create_update_slot"

NameInCapitals == [php |-> "PHP", ruby |-> "RUBY", node |-> "NODE", dotnetcore |-> "DOTNETCORE"]

\* the descriptor a valid linux entry is to give
ExpectedDescriptor(fx) ==
    IF fx.name # "java"
    THEN NameInCapitals[fx.name] \o "|" \o (IF fx.version = "lts" THEN "LTS" ELSE fx.version)
    ELSE IF fx.settings = EmptyDict THEN "JAVA|8-jre8"
    ELSE "TOMCAT|" \o fx.settings.java_container_version \o "-jre8"

\* C14: for a linux parent and a single valid entry the runtime descriptor in
\* the patch is "<NAME>|<VERSION>" in capitals for a runtime other than java,
\* "JAVA|8-jre8" for java 8 without nested settings and
\* "TOMCAT|<java_container_version>-jre8" for java 8 in a tomcat container.
C14_LinuxDescriptor ==
    (Normalized /\ remote.is_linux /\ kwargs.frameworks # <<>> /\ LinuxValid(kwargs.frameworks))
    => Get(self.site_config, "linux_fx_version") = ExpectedDescriptor(kwargs.frameworks[1])

C14_Witness ==
    /\ Normalized /\ remote.is_linux
    /\ kwargs.frameworks = <<Framework("java", "8", tomcat85)>>
    /\ Get(self.site_config, "linux_fx_version") = "TOMCAT|8.5-jre8"

\* C15: for a container request the runtime descriptor is "DOCKER|", then
\* "<registry url>/" only when a registry URL is given, then the image; the
\* settings gain DOCKER_REGISTRY_SERVER_URL = "https://" + url only when the
\* URL is given and the USERNAME and PASSWORD entries only when the user and
\* the password are given; every other requested setting is kept as it is
\* and no other key appears.
C15_Container ==
    (Normalized /\ kwargs.container_settings # EmptyDict)
    => LET c == kwargs.container_settings
           added == RegistrySettings(c)
       IN /\ Get(self.site_config, "linux_fx_version")
               = (IF Given(c.registry_server_url)
                  THEN "DOCKER|" \o c.registry_server_url \o "/" \o c.name
                  ELSE "DOCKER|" \o c.name)
          /\ DOMAIN self.app_settings = DOMAIN kwargs.app_settings \cup DOMAIN added
          /\ \A k \in DOMAIN self.app_settings :
                self.app_settings[k] = (IF k \in DOMAIN added THEN added[k]
                                        ELSE kwargs.app_settings[k])

C15_Witness ==
    /\ Normalized /\ kwargs.container_settings # EmptyDict
    /\ kwargs.container_settings.registry_server_url = ""
    /\ kwargs.container_settings.registry_server_user = "user"
    /\ kwargs.container_settings.registry_server_password = NoneV
    /\ Get(self.site_config, "linux_fx_version") = "DOCKER|ubuntu"
    /\ self.app_settings = [DOCKER_REGISTRY_SERVER_URL |-> "https://old.io", k1 |-> "a",
                            DOCKER_REGISTRY_SERVER_USERNAME |-> "user"]

\* -------------------------------------------- claims on lifecycle and swap

\* outside check mode, lines 699-708 have been passed in this invocation
LifecycleDecided ==
    /\ ~kwargs.check_mode
    /\ \/ self.pc \in {"set_slot_state", "swap_slot", "swap_slot_reset", "done"}
       \/ Ops(self) \cap (StateOps \cup SwapOps) # {}

\* C16: for app_state started or stopped, outside check mode, the lifecycle
\* call is issued exactly when a slot is at hand whose state differs from the
\* requested one (Stopped for stopped, Running for started), changed is then
\* set, the call is stop_slot for stopped and start_slot for started, issued
\* once, and the state compared is the one create_or_update_slot returned
\* when that call was made in this invocation and the looked-up one otherwise.
C16_Lifecycle ==
    (kwargs.app_state \in {"started", "stopped"} /\ LifecycleDecided)
    => LET created == Succeeded(self, "create_or_update_slot")
           found == created \/ self.old_response.found
           current == IF created THEN self.response.state ELSE self.old_response.state
           differs == /\ found
                      /\ current # (IF kwargs.app_state = "stopped" THEN "Stopped" ELSE "Running")
           call == IF kwargs.app_state = "stopped" THEN "stop_slot" ELSE "start_slot"
       IN /\ (self.pc = "set_slot_state" \/ Issued(self, call)) <=> differs
          /\ Ops(self) \cap StateOps \subseteq {call}
          /\ Count(self, call) <= 1
          /\ differs => self.changed
          /\ (~self.to_be_updated /\ IsEmpty(kwargs.swap) /\ ~Issued(self, "delete_slot"))
               => (self.changed => differs)

C16_Witness ==
    /\ kwargs.app_state = "stopped" /\ self.pc = "done"
    /\ ~self.old_response.found /\ Succeeded(self, "create_or_update_slot")
    /\ self.response.state = "Running"
    /\ Issued(self, "stop_slot")

\* C17 as stated: an invocation with a swap request that completes has
\* changed=true and, outside check mode, has issued a swap operation,
\* whatever the slot state and the requested state.
C17_SwapAlways ==
    (~IsEmpty(kwargs.swap) /\ self.pc = "done")
    => /\ self.changed
       /\ ~kwargs.check_mode => Ops(self) \cap SwapOps # {}

\* C17: an invocation with a swap request that completes has changed=true
\* and, outside check mode, has issued a swap operation, whatever the slot
\* state and whatever else was changed, except when state=absent and the
\* lookup found no slot: then no swap operation is issued and changed stays
\* false.
C17_SwapWhenSlot ==
    (~IsEmpty(kwargs.swap) /\ self.pc = "done")
    => IF kwargs.state = "absent" /\ ~self.old_response.found
       THEN ~self.changed /\ Ops(self) \cap SwapOps = {}
       ELSE /\ self.changed
            /\ ~kwargs.check_mode => Ops(self) \cap SwapOps # {}

C17_Witness ==
    /\ ~IsEmpty(kwargs.swap) /\ self.pc = "done" /\ ~kwargs.check_mode
    /\ kwargs.state = "present" /\ kwargs.app_state = "stopped"
    /\ Issued(self, "create_or_update_slot") /\ Issued(self, "stop_slot")
    /\ Ops(self) \cap SwapOps # {}

\* the calls of the swap family, in the order issued
SwapCalls(s) == SelectSeq(s.calls, LAMBDA c : c.op \in SwapOps)

\* C18: with action=swap, a null target_slot dispatches
\* swap_slot_with_production (for this slot) and never swap_slot_slot; a
\* target_slot that is given dispatches swap_slot_slot from this slot to that
\* target and never swap_slot_with_production.
C18_SwapDispatch ==
    (~IsEmpty(kwargs.swap) /\ kwargs.swap.action = "swap")
    => /\ \A i \in 1..Len(self.calls) :
             self.calls[i].op \in SwapOps
             => IF kwargs.swap.target_slot = NoneV
                THEN /\ self.calls[i].op = "swap_slot_with_production"
                     /\ self.calls[i].arg = [target_slot |-> SlotName]
                ELSE /\ self.calls[i].op = "swap_slot_slot"
                     /\ self.calls[i].arg = [slot |-> SlotName,
                                             target_slot |-> kwargs.swap.target_slot]
       /\ (self.pc = "done" /\ ~kwargs.check_mode
             /\ ~(kwargs.state = "absent" /\ ~self.old_response.found))
            => Len(SwapCalls(self)) = 1

C18_Witness ==
    /\ ~IsEmpty(kwargs.swap) /\ kwargs.swap.action = "swap"
    /\ kwargs.swap.target_slot = NoneV
    /\ self.pc = "done" /\ Succeeded(self, "swap_slot_with_production")

\* the operation each request is keyed to
KeyedOperation(swap) ==
    IF swap.target_slot = NoneV
    THEN [swap |-> "swap_slot_with_production", preview |-> "apply_slot_config_to_production",
          reset |-> "reset_production_slot_config"][swap.action]
    ELSE [swap |-> "swap_slot_slot", preview |-> "apply_slot_configuration_slot",
          reset |-> "reset_slot_configuration_slot"][swap.action]

\* C19: for each action (swap, preview, reset) and target kind (production
\* or named), a swap step that has run to its end has invoked one operation
\* of the swap family, the one keyed by action and target kind, and no other.
C19_OneSwapOperation ==
    (~IsEmpty(kwargs.swap) /\ self.pc = "done" /\ SwapCalls(self) # <<>>)
    => /\ Len(SwapCalls(self)) = 1
       /\ SwapCalls(self)[1].op = KeyedOperation(kwargs.swap)

\* C20: in the results of an invocation that has completed, id is set
\* exactly when create_or_update_slot was called in that invocation, and it
\* is then the id of the slot that call returned; otherwise it is None.
C20_ResultId ==
    self.pc = "done"
    => /\ self.id # NoneV <=> Issued(self, "create_or_update_slot")
       /\ self.id # NoneV => (self.response.found /\ self.id = self.response.id)

C20_Witness ==
    /\ self.pc = "done" /\ self.id = SlotId
    /\ self.old_response.found /\ Succeeded(self, "create_or_update_slot")

\* ----------------------------------------------- claims on the order of calls

\* the place of an operation in the course of an invocation
Stage(op) ==
    CASE op = "get_webapp" -> 1
      [] op = "get_slot" -> 2
      [] op \in {"get_configuration_slot", "list_application_settings_slot"} -> 3
      [] op \in {"delete_slot", "create_or_update_slot"} -> 4
      [] op \in StateOps -> 5
      [] op \in SwapOps -> 6

\* the stages that may hold more than one call: the reads of an existing
\* slot and the swap step
ReadOrSwapStage == {Stage("get_configuration_slot"), Stage("swap_slot_slot")}

\* C21: the calls of an invocation come in the order parent lookup, slot
\* lookup, (reads of the existing slot,) at most one of delete and
\* create-or-update, at most one lifecycle call, then the swap step; no
\* lifecycle call precedes the create/update and no swap call precedes the
\* lifecycle call.  The stages never go back, and two calls in a row are of
\* the same stage only among the reads and within the swap step.
C21_CallOrder ==
    /\ \A i \in 1..(Len(self.calls) - 1) :
          /\ Stage(self.calls[i].op) <= Stage(self.calls[i + 1].op)
          /\ Stage(self.calls[i].op) = Stage(self.calls[i + 1].op)
               => Stage(self.calls[i].op) \in ReadOrSwapStage
    /\ Len(self.calls) >= 1 => self.calls[1].op = "get_webapp"
    /\ Len(self.calls) >= 2 => self.calls[2].op = "get_slot"

C21_Witness ==
    /\ self.pc = "done" /\ self.old_response.found
    /\ Len(self.calls) = 7
    /\ self.calls[5].op = "create_or_update_slot"
    /\ self.calls[6].op = "start_slot"
    /\ self.calls[7].op = "swap_slot_slot"

\* C22: after the first failure of a remote call (a slot that is not found
\* is no failure) the invocation issues no further call.
C22_NothingAfterFailure ==
    \A i \in 1..Len(self.calls) :
        (~self.calls[i].ok /\ self.calls[i].op # "get_slot") => i = Len(self.calls)

\* -------------------------------------------- claims on the comparisons

UpdatableFields ==
    {"net_framework_version", "java_version", "php_version", "python_version", "scm_type"}

SameIgnoringCase(a, b) == a = b \/ {a, b} = {"v4", "V4"}

\* a field for which the patch gives a value that the existing
\* configuration lacks or has differently, letter case aside
FieldDiffers(patch, existing, f) ==
    /\ Given(Get(patch, f))
    /\ \/ ~Given(Get(existing, f))
       \/ ~SameIgnoringCase(Get(existing, f), Get(patch, f))

\* C23: is_site_config_changed answers 'changed' whenever, for one of the
\* five updatable fields, the patch gives a non-empty value and the existing
\* value is absent or differs from it ignoring case; with no auto-swap
\* target wanted it answers 'changed' only then, so a field the patch leaves
\* empty never causes an update.
C23_FrameworkDiff ==
    self.pc = "compared_config"
    => LET differs == \E f \in UpdatableFields :
                         FieldDiffers(self.site_config, self.old_config, f)
       IN /\ differs => ret
          /\ self.auto_swap_slot_name = NoneV => (ret <=> differs)

C23_Witness ==
    /\ self.pc = "compared_config" /\ ~ret /\ self.auto_swap_slot_name = NoneV
    /\ Get(self.site_config, "php_version") = "v4"
    /\ Get(self.old_config, "php_version") = "V4"
    /\ Get(self.site_config, "scm_type") = ""
    /\ Get(self.old_config, "scm_type") = "7.0"

\* C24: when an auto-swap target is requested for an existing slot and it
\* differs from the target the slot has, an update is decided.
C24_AutoSwapDiff ==
    ( /\ kwargs.state = "present" /\ self.old_response.found
      /\ self.pc = "list_app_settings"
      /\ Given(kwargs.auto_swap_slot)
      /\ kwargs.auto_swap_slot # Get(self.old_config, "auto_swap_slot_name") )
    => (self.to_be_updated /\ self.to_do = CreateOrUpdate)

\* the descriptor of the patch, empty when the request selects no linux
\* framework and no container
PatchDescriptor ==
    IF "linux_fx_version" \in DOMAIN self.site_config
    THEN self.site_config["linux_fx_version"] ELSE ""

\* C25: for an existing slot, once its configuration has been read, a
\* descriptor of the patch that differs from the existing one, letter case
\* included, decides an update; when the patch holds nothing but the
\* descriptor, an update is decided only then, so no descriptor on either
\* side causes none.
C25_DescriptorDiff ==
    (Normalized /\ self.old_response.found /\ self.pc = "list_app_settings")
    => LET existing == self.old_config["linux_fx_version"] IN
       /\ PatchDescriptor # existing => (self.to_be_updated /\ self.to_do = CreateOrUpdate)
       /\ DOMAIN self.site_config \subseteq {"linux_fx_version"}
            => (self.to_do = CreateOrUpdate <=> PatchDescriptor # existing)
       /\ (kwargs.frameworks = <<>> /\ IsEmpty(kwargs.container_settings) /\ existing = "")
            => ~self.to_be_updated

C25_Witness ==
    /\ Normalized /\ self.old_response.found /\ self.pc = "list_app_settings"
    /\ PatchDescriptor = "PHP|7.0"
    /\ Get(self.old_config, "linux_fx_version") = "php|7.0"
    /\ self.to_do = CreateOrUpdate

\* C26: for an existing slot, when the first invocation has completed outside
\* check mode with no remote fault, the slot holds every requested setting
\* with the requested value, and with purge it holds the requested settings
\* and no other.
C26_SettingsApplied ==
    ( /\ run = 1 /\ self.pc = "done" /\ ~kwargs.check_mode /\ NoFault(self)
      /\ kwargs.state = "present" /\ self.old_response.found )
    => /\ \A k \in DOMAIN self.app_settings :
             Get(remote.slot.app_settings, k) = self.app_settings[k]
       /\ kwargs.purge_app_settings => remote.slot.app_settings = self.app_settings

\* ------------------------------------------------- claims on two processes

\* a process that looked the slot up, did not find it, and completed
CreatedUnseen(s) ==
    /\ s.pc = "done" /\ Issued(s, "get_slot") /\ ~s.old_response.found

\* C27: two processes on the same slot are not serialized.  Whenever both
\* have looked the slot up before it was there and both have completed a
\* state=present run outside check mode, both have issued
\* create_or_update_slot and both report changed; and a step of a process
\* issues at most one remote call, the one it then waits for.
C27_Race ==
    /\ [] ( ( kwargs.state = "present" /\ CreatedUnseen(self) /\ CreatedUnseen(peer) )
            => /\ Succeeded(self, "create_or_update_slot") /\ self.changed
               /\ Succeeded(peer, "create_or_update_slot") /\ peer.changed )
    /\ [][ Len(self'.calls) + Len(peer'.calls) <= Len(self.calls) + Len(peer.calls) + 1 ]_vars

C27_Witness ==
    /\ kwargs.state = "present" /\ remote.slot.exists
    /\ CreatedUnseen(self) /\ CreatedUnseen(peer)
    /\ Succeeded(self, "create_or_update_slot") /\ Succeeded(peer, "create_or_update_slot")
    /\ self.changed /\ peer.changed

\* ------------------------------------------------ claims on the whole run

\* C28: no mutating call is issued or about to be issued while changed is
\* false, and an invocation that has completed outside check mode, with no
\* remote fault and without issuing a mutating call, reports changed=false.
C28_ChangedCoversMutation ==
    /\ (Ops(self) \cap MutatingOps # {} \/ self.pc \in MutatingPcs) => self.changed
    /\ ( /\ self.pc = "done" /\ ~kwargs.check_mode /\ NoFault(self)
         /\ Ops(self) \cap MutatingOps = {} )
         => ~self.changed

\* C29: with state=absent no create_or_update_slot is issued, the slot's
\* configuration and application settings are never read, no validation
\* error is raised and no patch is built, whatever frameworks, container and
\* settings are requested.
C29_AbsentReadsNothing ==
    kwargs.state = "absent"
    => /\ Ops(self) \cap {"create_or_update_slot", "get_configuration_slot",
                          "list_application_settings_slot"} = {}
       /\ self.pc \notin {"create_update_slot", "get_configuration", "list_app_settings"}
       /\ ~ValidationFailed
       /\ self.site_config = EmptyDict
       /\ self.id = NoneV

C29_Witness ==
    /\ kwargs.state = "absent" /\ self.pc = "done"
    /\ JavaWithOthers(kwargs.frameworks)
    /\ Succeeded(self, "delete_slot")

\* C30: with state=absent, once delete_slot has been issued the invocation
\* issues no start, stop, restart or swap call.
C30_NothingAfterDelete ==
    (kwargs.state = "absent" /\ Issued(self, "delete_slot"))
    => /\ Ops(self) \cap (StateOps \cup SwapOps) = {}
       /\ self.pc \notin {"set_slot_state", "swap_slot", "swap_slot_reset"}

====
